---- MODULE Spec2Model ----
(***************************************************************************)
(* Episode invitation and booking lifecycle of episode-flow.               *)
(*                                                                         *)
(* The store holds the tables episodes and episode_guests.  Two edge       *)
(* functions act on it: send-invitation (creates a guest row, then sends   *)
(* the booking link by email) and guest-booking (GET renders the booking   *)
(* page of one guest, POST updates that guest's row).  Every invocation of *)
(* a handler is an independent request; the only shared state is the       *)
(* store.  A handler is cut into steps at its awaits on the store or on    *)
(* the email provider: what lies between two awaits is local to the        *)
(* request and is folded into the step that follows.                       *)
(*                                                                         *)
(* Spec      requests against the whole store; a booking request runs to   *)
(*           completion before the next one starts.                        *)
(* SpecRace  booking POSTs for one guest overlap: each is cut at the await *)
(*           of its update, so that several are in flight at once.         *)
(* SpecInvite the dashboard's sendInvitations: the invocations of one batch *)
(*           run concurrently, each cut at its awaits.                     *)
(* SpecCreate the create-episode dialog: the form's validation, handleSubmit *)
(*           cut at its awaits, and the invitations it dispatches.         *)
(* SpecConsole the host console on the change feed: booking POSTs publish  *)
(*           change events, the dashboard and the episode details dialog   *)
(*           refetch, and their fetches overlap.                           *)
(* SpecPage  booking POSTs issued only by the script of rendered booking   *)
(*           pages, in two browser tabs of one guest.                      *)
(***************************************************************************)
EXTENDS Naturals, Sequences, FiniteSets, TLC

VARIABLES
  episodes,     \* table episodes: id -> row
  guests,       \* table episode_guests: id -> row, or NoRow before its insert
  inflight,     \* guest-booking POSTs that parsed their body and await the update
  response,     \* the response of the request that completed last
  storeError,   \* environment: the store call of that request reported an error
  lastPost,     \* history: the POST whose update a guest row took last, and the status it replaced
  raced,        \* history: an update was applied while another POST for the same guest was in flight
  calls,        \* history: the store and email calls that request issued, in order
  invocations,  \* sendInvitations: the send-invitation invocations of the current batch
  hostPc,       \* sendInvitations: "idle", or "awaiting" at its await of Promise.all
  toast,        \* sendInvitations: the toast the last batch showed the host, or None
  form,         \* create-episode dialog: the submitted data and where handleSubmit stands
  feed,         \* realtime: whether the console is subscribed, and the change events not yet delivered
  fetches,      \* console: the fetches in flight, in the order they were started
  shown,        \* console: the React state the last answered fetch set
  notice,       \* console: the toast the change event delivered last raised, or none
  tabs          \* guest: the booking pages open in the guest's browser tabs

vars == <<episodes, guests, inflight, response, storeError, lastPost, raced,
          calls, invocations, hostPc, toast, form, feed, fetches, shown, notice, tabs>>

\* what a request of the two edge functions never touches
dashboard == <<invocations, hostPc, toast, form, fetches, shown, notice>>

----------------------------------------------------------------------------
(* Bounds and input domains *)

\* number of guest-booking POSTs that may be in flight at once
MaxInFlight == 2

\* number of guest responses a console session sees
MaxResponses == 2

\* number of fetches of a console component that may be in flight at once
MaxFetches == 2

\* ids gen_random_uuid() hands out, in the order of the inserts
GuestIdPool == <<"g1", "g2">>
GuestIds == {GuestIdPool[i] : i \in DOMAIN GuestIdPool}
\* a well-formed id that names no row, and the empty last path segment
NoSuchGuest == "g-unknown"
MissingId == ""
\* a last path segment that is no uuid: the store rejects it in the filter on
\* the uuid column id
MalformedId == "not-a-uuid"

\* SQL NULL / JS null, and a JS undefined (key absent from the JSON body)
Null == "<null>"
Undefined == "<undefined>"
None == "<none>"
NoRow == [exists |-> FALSE]
\* no response yet; no POST applied yet
NoResponse == [handler |-> None]
NoPost == [guestId |-> None]
\* no toast shown
NoToast == [title |-> None]
\* the dialog before a submit; nothing fetched yet; no subscription
NoForm ==
  [pc |-> "idle", submitted |-> FALSE, data |-> None, errors |-> {},
   loading |-> FALSE, sendingInvites |-> FALSE, toasts |-> <<>>,
   reset |-> FALSE, created |-> FALSE, open |-> TRUE, episodeId |-> None]
NoShown == [component |-> None]
NoFeed == [subscribed |-> FALSE, events |-> <<>>, published |-> 0]

Slot1 == "10:00 - 11:00"
Slot2 == "14:00 - 15:00"
Slot3 == "18:00 - 19:00"

EpisodeIds == {"e1", "e2"}
NoSuchEpisode == "e-unknown"

\* name and email are opaque to both handlers: the n-th invitation that
\* reaches the insert carries the n-th invitee
Invitees == <<[name |-> "Jane", email |-> "jane@x.com"],
              [name |-> "Raj", email |-> "raj@x.com"]>>

\* what a caller may put in the fields of a POST body; status is the one
\* field the interface requires, and nothing checks its value
StatusInputs == {"confirmed", "declined", "maybe"}
SlotInputs == {Undefined, Slot3}
NoteInputs == {Undefined, "conflict"}
Bodies == [status : StatusInputs, selectedSlot : SlotInputs, rejectionNote : NoteInputs]

Range(s) == {s[i] : i \in DOMAIN s}

----------------------------------------------------------------------------
(* JavaScript and store primitives *)

\* JS truthiness of an optional string
Truthy(v) == v \notin {Undefined, Null, ""}

\* a ?? b
Coalesce(a, b) == IF a \in {Undefined, Null} THEN b ELSE a

\* the row a column-wise UPDATE leaves: the patch's keys overwrite, the rest stays
Merge(row, patch) ==
  [k \in DOMAIN row |-> IF k \in DOMAIN patch THEN patch[k] ELSE row[k]]

\* mutant: the update is applied only while the guest has not answered yet
updateIfPending(table, patch, id) ==
  [x \in DOMAIN table |->
     IF x = id /\ table[x] # NoRow /\ table[x].status = "pending"
       THEN Merge(table[x], patch) ELSE table[x]]

\* mutant: the update lacks its .eq('id', id) filter
updateEveryRow(table, patch, id) ==
  [x \in DOMAIN table |->
     IF table[x] # NoRow THEN Merge(table[x], patch) ELSE table[x]]

\* .from(table).update(patch).eq('id', id): every row whose id matches, and only it
update(table, patch, id) ==
  [x \in DOMAIN table |->
     IF x = id /\ table[x] # NoRow THEN Merge(table[x], patch) ELSE table[x]]

\* mutant: the insert names another status than the column's default
NewGuestInvited(episodeId, guestName, guestEmail) ==
  [exists |-> TRUE,
   episode_id |-> episodeId,
   name |-> guestName,
   email |-> guestEmail,
   status |-> "invited",
   selected_time_slot |-> Null,
   rejection_note |-> Null]

\* the row of a fresh episode_guests insert: columns not given take their defaults
NewGuest(episodeId, guestName, guestEmail) ==
  [exists |-> TRUE,
   episode_id |-> episodeId,
   name |-> guestName,
   email |-> guestEmail,
   status |-> "pending",
   selected_time_slot |-> Null,
   rejection_note |-> Null]

\* the id the next insert gets
NextGuestId == CHOOSE g \in GuestIds :
  /\ guests[g] = NoRow
  /\ \A i, j \in DOMAIN GuestIdPool :
       (GuestIdPool[j] = g /\ i < j) => guests[GuestIdPool[i]] # NoRow

StoreFull == \A g \in GuestIds : guests[g] # NoRow

\* whom the next invitation names
NextInvitee == Invitees[Cardinality({g \in GuestIds : guests[g] # NoRow}) + 1]

Exists(id) == id \in GuestIds /\ guests[id] # NoRow

\* ids a booking URL may end in: an issued booking link, an unknown id, no id
RequestIds == {g \in GuestIds : guests[g] # NoRow} \cup {NoSuchGuest, MalformedId, MissingId}

----------------------------------------------------------------------------
(* guest-booking *)

Respond(fn, method, id, status, body) ==
  [handler |-> fn, method |-> method, guestId |-> id, status |-> status, body |-> body]

\* mutant: rejection_note is part of every patch
updateDataAlwaysNote(body) ==
  [status |-> body.status,
   selected_time_slot |-> Coalesce(body.selectedSlot, Null),
   rejection_note |-> Coalesce(body.rejectionNote, Null)]

\* mutant: selected_time_slot is part of the patch only when the body carries a slot
updateDataSparse(body) ==
  IF Truthy(body.selectedSlot)
    THEN [status |-> body.status, selected_time_slot |-> body.selectedSlot]
    ELSE [status |-> body.status]

\* mutant: a patch without a note resets rejection_note
updateDataClearsNote(body) ==
  [status |-> body.status,
   selected_time_slot |-> Coalesce(body.selectedSlot, Null),
   rejection_note |-> IF body.status = "declined" /\ Truthy(body.rejectionNote)
                        THEN body.rejectionNote ELSE Null]

\* the patch the POST branch builds from the parsed body
updateData(body) ==
  IF body.status = "declined" /\ Truthy(body.rejectionNote)
    THEN [status |-> body.status,
          selected_time_slot |-> Coalesce(body.selectedSlot, Null),
          rejection_note |-> body.rejectionNote]
    ELSE [status |-> body.status,
          selected_time_slot |-> Coalesce(body.selectedSlot, Null)]

createNotFoundPage == [type |-> "html", page |-> "not-found"]

\* the guest row joined with its episode, as the GET branch selects it
Joined(g) == [guest |-> guests[g], episodes |-> episodes[guests[g].episode_id]]

\* mutant: the confirmed view is chosen by the stored slot, not by the status
createBookingPageBySlot(j) ==
  IF Truthy(j.guest.selected_time_slot)
    THEN [type |-> "html", page |-> "booking", title |-> j.episodes.title,
          name |-> j.guest.name, view |-> "confirmed",
          slot |-> j.guest.selected_time_slot]
  ELSE IF j.guest.status = "declined"
    THEN [type |-> "html", page |-> "booking", title |-> j.episodes.title,
          name |-> j.guest.name, view |-> "declined",
          note |-> IF Truthy(j.guest.rejection_note)
                     THEN j.guest.rejection_note ELSE None]
  ELSE [type |-> "html", page |-> "booking", title |-> j.episodes.title,
        name |-> j.guest.name, view |-> "form",
        slots |-> j.episodes.time_slots]

\* the booking page: what it shows depends on the guest's status
createBookingPage(j) ==
  IF j.guest.status = "confirmed"
    THEN [type |-> "html", page |-> "booking", title |-> j.episodes.title,
          name |-> j.guest.name, view |-> "confirmed",
          slot |-> j.guest.selected_time_slot]
  ELSE IF j.guest.status = "declined"
    THEN [type |-> "html", page |-> "booking", title |-> j.episodes.title,
          name |-> j.guest.name, view |-> "declined",
          note |-> IF Truthy(j.guest.rejection_note)
                     THEN j.guest.rejection_note ELSE None]
  ELSE [type |-> "html", page |-> "booking", title |-> j.episodes.title,
        name |-> j.guest.name, view |-> "form",
        slots |-> j.episodes.time_slots]

BookingUnchanged ==
  UNCHANGED <<episodes, guests, inflight, lastPost, raced, dashboard, feed>>

\* OPTIONS: the CORS preflight, answered before the id is looked at
BookingOptions(id) ==
  /\ response' = Respond("guest-booking", "OPTIONS", None, 200, [type |-> "empty"])
  /\ storeError' = FALSE
  /\ calls' = <<>>
  /\ BookingUnchanged

\* no guest id in the path
BookingBadRequest(method) ==
  /\ response' = Respond("guest-booking", method, MissingId, 400,
                         [type |-> "text", text |-> "Invalid guest id"])
  /\ storeError' = FALSE
  /\ calls' = <<>>
  /\ BookingUnchanged

\* mutant: the GET marks a pending invitation as opened
BookingGetMarksOpened(id) ==
  /\ id # MissingId
  /\ calls' = <<"episode_guests.select", "episode_guests.update">>
  /\ \E err \in BOOLEAN :
       /\ id = MalformedId => err
       /\ storeError' = err
       /\ response' = Respond("guest-booking", "GET", id, 200,
                              IF ~err /\ Exists(id)
                                THEN createBookingPage(Joined(id))
                                ELSE createNotFoundPage)
       /\ guests' = IF ~err /\ Exists(id) /\ guests[id].status = "pending"
                      THEN update(guests, [status |-> "opened"], id)
                      ELSE guests
  /\ UNCHANGED <<episodes, inflight, lastPost, raced, dashboard, feed>>

\* mutant: an id that resolves to no row is answered 404
BookingGetNotFound404(id) ==
  /\ id # MissingId
  /\ calls' = <<"episode_guests.select">>
  /\ \E err \in BOOLEAN :
       /\ id = MalformedId => err
       /\ storeError' = err
       /\ response' = IF ~err /\ Exists(id)
                        THEN Respond("guest-booking", "GET", id, 200,
                                     createBookingPage(Joined(id)))
                        ELSE Respond("guest-booking", "GET", id, 404,
                                     createNotFoundPage)
  /\ BookingUnchanged

\* GET: one select of the guest row with its episode, then the page
BookingGet(id) ==
  /\ id # MissingId
  /\ calls' = <<"episode_guests.select">>
  /\ \E err \in BOOLEAN :
       /\ id = MalformedId => err
       /\ storeError' = err
       /\ response' = Respond("guest-booking", "GET", id, 200,
                              IF ~err /\ Exists(id)
                                THEN createBookingPage(Joined(id))
                                ELSE createNotFoundPage)
  /\ BookingUnchanged

\* the POST branch when req.json() throws: the catch answers 500
BookingPostMalformed(id) ==
  /\ id # MissingId
  /\ response' = Respond("guest-booking", "POST", None, 500,
                         [type |-> "json", error |-> "Unexpected token"])
  /\ storeError' = FALSE
  /\ calls' = <<>>
  /\ BookingUnchanged

\* mutant: the error of the update is not looked at
FailPostAnswersSuccess ==
  /\ storeError' = TRUE
  /\ calls' = <<"episode_guests.update">>
  /\ response' = Respond("guest-booking", "POST", None, 200,
                         [type |-> "json", success |-> TRUE])
  /\ UNCHANGED <<guests, lastPost, raced, feed>>

\* the POST branch from the update on, when the store reports an error:
\* the handler throws and the catch answers 500
FailPost ==
  /\ storeError' = TRUE
  /\ calls' = <<"episode_guests.update">>
  /\ response' = Respond("guest-booking", "POST", None, 500,
                         [type |-> "json", error |-> "Failed to update booking"])
  /\ UNCHANGED <<guests, lastPost, raced, feed>>

\* the publication supabase_realtime: every UPDATE of a guest row is handed
\* to the subscribers as a change event with the old and the new record
Publish(f, oldRecord, newRecord) ==
  IF f.subscribed
    THEN [f EXCEPT !.events = Append(@, [old |-> oldRecord, new |-> newRecord]),
                   !.published = @ + 1]
    ELSE f

\* mutant: the handler looks at the number of rows the update matched
ApplyPostRequiresRow(p) ==
  /\ p.guestId # MalformedId
  /\ storeError' = FALSE
  /\ calls' = <<"episode_guests.update">>
  /\ guests' = update(guests, updateData(p.body), p.guestId)
  /\ response' = IF Exists(p.guestId)
                   THEN Respond("guest-booking", "POST", p.guestId, 200,
                                [type |-> "json", success |-> TRUE])
                   ELSE Respond("guest-booking", "POST", p.guestId, 404,
                                [type |-> "json", error |-> "Guest not found"])
  /\ IF Exists(p.guestId)
       THEN /\ lastPost' = [guestId |-> p.guestId, body |-> p.body,
                            old |-> guests[p.guestId].status]
            /\ raced' = (raced \/ \E q \in inflight \ {p} : q.guestId = p.guestId)
            /\ feed' = Publish(feed, guests[p.guestId],
                               Merge(guests[p.guestId], updateData(p.body)))
       ELSE UNCHANGED <<lastPost, raced, feed>>

\* the POST branch from the update on: the store applies the patch to the
\* row in one statement, then the handler answers
ApplyPost(p) ==
  /\ p.guestId # MalformedId
  /\ storeError' = FALSE
  /\ calls' = <<"episode_guests.update">>
  /\ guests' = update(guests, updateData(p.body), p.guestId)
  /\ response' = Respond("guest-booking", "POST", p.guestId, 200,
                         [type |-> "json", success |-> TRUE])
  /\ IF Exists(p.guestId)
       THEN /\ lastPost' = [guestId |-> p.guestId, body |-> p.body,
                            old |-> guests[p.guestId].status]
            /\ raced' = (raced \/ \E q \in inflight \ {p} : q.guestId = p.guestId)
            /\ feed' = Publish(feed, guests[p.guestId],
                               Merge(guests[p.guestId], updateData(p.body)))
       ELSE UNCHANGED <<lastPost, raced, feed>>

\* POST, run to completion without another request in between
BookingPost(id) ==
  /\ id # MissingId
  /\ inflight = {}
  /\ \/ \E body \in Bodies : ApplyPost([guestId |-> id, body |-> body])
     \/ FailPost
  /\ UNCHANGED <<episodes, inflight, dashboard>>

\* POST, up to the await of the update: the body is parsed
BookingPostReceive(id, body) ==
  /\ id # MissingId
  /\ Cardinality(inflight) < MaxInFlight
  /\ inflight' = inflight \cup {[guestId |-> id, body |-> body]}
  /\ UNCHANGED <<episodes, guests, response, storeError, lastPost, raced, calls,
                 dashboard, feed>>

\* POST, the update and the answer
BookingPostUpdate(p) ==
  /\ p \in inflight
  /\ inflight' = inflight \ {p}
  /\ ApplyPost(p) \/ FailPost
  /\ UNCHANGED <<episodes, dashboard>>

\* mutant: every method that is not GET or POST is answered like the preflight
BookingMethodAnsweredAsPreflight(id) ==
  /\ id # MissingId
  /\ response' = Respond("guest-booking", "PUT", None, 200, [type |-> "empty"])
  /\ storeError' = FALSE
  /\ calls' = <<>>
  /\ BookingUnchanged

\* any other method
BookingMethodNotAllowed(id) ==
  /\ id # MissingId
  /\ response' = Respond("guest-booking", "PUT", None, 405,
                         [type |-> "text", text |-> "Method not allowed"])
  /\ storeError' = FALSE
  /\ calls' = <<>>
  /\ BookingUnchanged

----------------------------------------------------------------------------
(* send-invitation *)

\* OPTIONS preflight
InvitationOptions ==
  /\ response' = Respond("send-invitation", "OPTIONS", None, 200, [type |-> "empty"])
  /\ storeError' = FALSE
  /\ calls' = <<>>
  /\ UNCHANGED <<episodes, guests, inflight, lastPost, raced, dashboard, feed>>

\* the handler from the request to its answer: look the episode up, insert
\* the guest row, send the email.  The row is committed before the send, and
\* a failed send is answered 500 without touching it
SendInvitation(episodeId, who) ==
  /\ \/ \E err \in BOOLEAN :
          /\ err \/ episodeId \notin DOMAIN episodes
          /\ storeError' = err
          /\ response' = Respond("send-invitation", "POST", None, 500,
                                 [type |-> "json", error |-> "Episode not found"])
          /\ calls' = <<"episodes.select">>
          /\ UNCHANGED guests
     \/ /\ episodeId \in DOMAIN episodes
        /\ storeError' = TRUE
        /\ response' = Respond("send-invitation", "POST", None, 500,
                               [type |-> "json", error |-> "Failed to create guest record"])
        /\ calls' = <<"episodes.select", "profiles.select", "episode_guests.insert">>
        /\ UNCHANGED guests
     \/ /\ episodeId \in DOMAIN episodes
        /\ storeError' = FALSE
        /\ guests' = [guests EXCEPT ![NextGuestId] =
                        NewGuest(episodeId, who.name, who.email)]
        /\ calls' = <<"episodes.select", "profiles.select", "episode_guests.insert",
                      "emails.send">>
        /\ \E sent \in BOOLEAN :
             response' =
               IF sent
                 THEN Respond("send-invitation", "POST", NextGuestId, 200,
                              [type |-> "json", success |-> TRUE])
                 ELSE Respond("send-invitation", "POST", NextGuestId, 500,
                              [type |-> "json", error |-> "email provider error"])
  /\ UNCHANGED <<episodes, inflight, lastPost, raced, dashboard, feed>>

----------------------------------------------------------------------------
(* sendInvitations and the send-invitation handler, step by step *)

\* the promise of an invocation that has not settled yet
Pending == [settled |-> "pending"]

\* supabase.functions.invoke resolves with {data, error}: an answer that is
\* not 2xx is handed back in error, it is not thrown
invoke(resp) ==
  IF resp.status = 200
    THEN [settled |-> "resolved", data |-> resp.body, error |-> Null]
    ELSE [settled |-> "resolved", data |-> Null, error |-> "FunctionsHttpError"]

\* one invocation as guests.map starts it: the handler is at its episode lookup
Invocation(episodeId, guest) ==
  [episodeId |-> episodeId, guestName |-> guest.name, guestEmail |-> guest.email,
   pc |-> "lookup", guestId |-> None, calls |-> <<>>,
   response |-> NoResponse, promise |-> Pending]

FreeIds == {g \in GuestIds : guests[g] = NoRow}

\* the handler of invocation i answers resp: its promise settles
Answer(i, resp, log, err) ==
  /\ invocations' = [invocations EXCEPT ![i].pc = "done",
                                        ![i].calls = log,
                                        ![i].response = resp,
                                        ![i].promise = invoke(resp)]
  /\ response' = resp
  /\ calls' = log
  /\ storeError' = err

InvitationUnchanged ==
  UNCHANGED <<episodes, inflight, lastPost, raced, hostPc, toast,
              form, feed, fetches, shown, notice, tabs>>

\* sendInvitations up to its await: guests.map starts one invocation per
\* guest, all of them before any is awaited
sendInvitations(episodeId, batchGuests) ==
  /\ hostPc = "idle"
  /\ Len(batchGuests) > 0
  /\ Len(batchGuests) <= Cardinality(FreeIds)
  /\ invocations' = [i \in DOMAIN batchGuests |-> Invocation(episodeId, batchGuests[i])]
  /\ hostPc' = "awaiting"
  /\ toast' = NoToast
  /\ UNCHANGED <<episodes, guests, inflight, response, storeError, lastPost, raced, calls,
                 feed, fetches, shown, notice, tabs>>

\* mutant: the handler does not look at the outcome of the episode lookup
InvitationLookupUnchecked(i) ==
  /\ invocations[i].pc = "lookup"
  /\ invocations' = [invocations EXCEPT
                       ![i].pc = "insert",
                       ![i].calls = <<"episodes.select", "profiles.select">>]
  /\ UNCHANGED <<guests, response, calls, storeError>>
  /\ InvitationUnchanged

\* the handler from the request to the await of the insert: the episode
\* lookup, which throws when it finds no row, and the best-effort profile lookup
InvitationLookup(i) ==
  /\ invocations[i].pc = "lookup"
  /\ \/ \E err \in BOOLEAN :
          /\ err \/ invocations[i].episodeId \notin DOMAIN episodes
          /\ Answer(i, Respond("send-invitation", "POST", None, 500,
                                [type |-> "json", error |-> "Episode not found"]),
                    <<"episodes.select">>, err)
     \/ /\ invocations[i].episodeId \in DOMAIN episodes
        /\ invocations' = [invocations EXCEPT
                             ![i].pc = "insert",
                             ![i].calls = <<"episodes.select", "profiles.select">>]
        /\ UNCHANGED <<response, calls, storeError>>
  /\ UNCHANGED guests
  /\ InvitationUnchanged

\* mutant: the batch is all-or-nothing, no row is inserted once an invitation failed
InvitationInsertUnlessFailed(i) ==
  /\ invocations[i].pc = "insert"
  /\ \A k \in DOMAIN invocations : invocations[k].promise = Pending
  /\ guests' = [guests EXCEPT ![NextGuestId] =
                  NewGuest(invocations[i].episodeId, invocations[i].guestName,
                           invocations[i].guestEmail)]
  /\ invocations' = [invocations EXCEPT
                       ![i].pc = "send",
                       ![i].guestId = NextGuestId,
                       ![i].calls = Append(@, "episode_guests.insert")]
  /\ UNCHANGED <<response, calls, storeError>>
  /\ InvitationUnchanged

\* the handler at the insert of the guest row, which throws on a store error
InvitationInsert(i) ==
  /\ invocations[i].pc = "insert"
  /\ \/ /\ Answer(i, Respond("send-invitation", "POST", None, 500,
                               [type |-> "json", error |-> "Failed to create guest record"]),
                   Append(invocations[i].calls, "episode_guests.insert"), TRUE)
        /\ UNCHANGED guests
     \/ /\ guests' = [guests EXCEPT ![NextGuestId] =
                        NewGuest(invocations[i].episodeId, invocations[i].guestName,
                                 invocations[i].guestEmail)]
        /\ invocations' = [invocations EXCEPT
                             ![i].pc = "send",
                             ![i].guestId = NextGuestId,
                             ![i].calls = Append(@, "episode_guests.insert")]
        /\ UNCHANGED <<response, calls, storeError>>
  /\ InvitationUnchanged

\* mutant: a failed send takes the guest row back
InvitationSendRollsBack(i) ==
  /\ invocations[i].pc = "send"
  /\ \E sent \in BOOLEAN :
       /\ Answer(i, IF sent
                      THEN Respond("send-invitation", "POST", invocations[i].guestId, 200,
                                   [type |-> "json", success |-> TRUE])
                      ELSE Respond("send-invitation", "POST", invocations[i].guestId, 500,
                                   [type |-> "json", error |-> "email provider error"]),
                 Append(invocations[i].calls, "emails.send"), FALSE)
       /\ guests' = IF sent THEN guests
                            ELSE [guests EXCEPT ![invocations[i].guestId] = NoRow]
  /\ InvitationUnchanged

\* the handler at the email send: the answer is 200 with the guest id, or,
\* when the send throws, the catch's 500
InvitationSend(i) ==
  /\ invocations[i].pc = "send"
  /\ \E sent \in BOOLEAN :
       Answer(i, IF sent
                   THEN Respond("send-invitation", "POST", invocations[i].guestId, 200,
                                [type |-> "json", success |-> TRUE])
                   ELSE Respond("send-invitation", "POST", invocations[i].guestId, 500,
                                [type |-> "json", error |-> "email provider error"]),
              Append(invocations[i].calls, "emails.send"), FALSE)
  /\ UNCHANGED guests
  /\ InvitationUnchanged

\* any step of invocation i
InvitationStep(i) ==
  InvitationLookup(i) \/ InvitationInsert(i) \/ InvitationSend(i)

WarningToast ==
  [title |-> "Warning",
   description |-> "Episode created but some invitations failed to send"]

\* sendInvitations from its await of Promise.all: the catch, and with it the
\* warning, is entered when a promise rejected; otherwise Promise.all
\* resolves once every promise did
awaitInvitations ==
  /\ hostPc = "awaiting"
  /\ \/ \E i \in DOMAIN invocations : invocations[i].promise.settled = "rejected"
     \/ \A i \in DOMAIN invocations : invocations[i].promise.settled = "resolved"
  /\ toast' = IF \E i \in DOMAIN invocations : invocations[i].promise.settled = "rejected"
                THEN WarningToast
                ELSE NoToast
  /\ hostPc' = "idle"
  /\ UNCHANGED <<episodes, guests, inflight, response, storeError, lastPost, raced,
                 calls, invocations, form, feed, fetches, shown, notice, tabs>>

----------------------------------------------------------------------------
(* The create-episode dialog *)

\* the times a slot may carry, in the order JS compares the strings
TimePool == <<"09:00", "10:00", "11:00">>
TimeIndex(t) == CHOOSE i \in DOMAIN TimePool : TimePool[i] = t

\* the email addresses z.string().email() accepts, among those entered
WellFormedEmails == {Invitees[i].email : i \in DOMAIN Invitees}

\* a form that passes the schema
ValidForm ==
  [title |-> "AI Future",
   description |-> "A talk about AI",
   date |-> "2025-09-01",
   timeSlots |-> <<[startTime |-> "10:00", endTime |-> "11:00"],
                   [startTime |-> "09:00", endTime |-> "10:00"]>>,
   guests |-> Invitees]

\* what the host may submit: the form as the dialog opens it, the valid form
\* with fewer slots or guests, and the valid form with one field spoilt
FormInputs ==
  {[title |-> "", description |-> "", date |-> "", timeSlots |-> <<>>, guests |-> <<>>],
   ValidForm,
   [ValidForm EXCEPT !.guests = <<>>],
   [ValidForm EXCEPT !.guests = SubSeq(Invitees, 1, 1)],
   [ValidForm EXCEPT !.timeSlots = SubSeq(@, 1, 1), !.guests = <<>>],
   [ValidForm EXCEPT !.title = ""],
   [ValidForm EXCEPT !.title = "AI"],
   [ValidForm EXCEPT !.description = ""],
   [ValidForm EXCEPT !.description = "Too short"],
   [ValidForm EXCEPT !.date = ""],
   [ValidForm EXCEPT !.timeSlots = <<>>],
   [ValidForm EXCEPT !.timeSlots = <<[startTime |-> "", endTime |-> "10:00"]>>],
   [ValidForm EXCEPT !.timeSlots = <<[startTime |-> "11:00", endTime |-> "10:00"]>>],
   [ValidForm EXCEPT !.guests = <<[name |-> "", email |-> "jane@x.com"]>>],
   [ValidForm EXCEPT !.guests = <<[name |-> "Bob", email |-> "bob-at-x"]>>]}

Issue(path, message) == [path |-> path, message |-> message]

\* formSchema: the issues zod raises for the submitted data; the form is
\* handed to handleSubmit only when there are none
formSchema(data) ==
  (IF Len(data.title) < 1 THEN {Issue("title", "Episode title is required")} ELSE {})
  \cup (IF Len(data.title) < 3
          THEN {Issue("title", "Title must be at least 3 characters")} ELSE {})
  \cup (IF Len(data.description) < 1
          THEN {Issue("description", "Episode description is required")} ELSE {})
  \cup (IF Len(data.description) < 10
          THEN {Issue("description", "Description must be at least 10 characters")}
          ELSE {})
  \cup (IF Len(data.date) < 1 THEN {Issue("date", "Episode date is required")} ELSE {})
  \cup (IF Len(data.timeSlots) < 1
          THEN {Issue("timeSlots", "At least one time slot is required")} ELSE {})
  \cup {Issue("timeSlots.startTime", "Start time is required") :
          i \in {k \in DOMAIN data.timeSlots : Len(data.timeSlots[k].startTime) < 1}}
  \cup {Issue("timeSlots.endTime", "End time is required") :
          i \in {k \in DOMAIN data.timeSlots : Len(data.timeSlots[k].endTime) < 1}}
  \cup {Issue("timeSlots.startTime", "Start time must be before end time") :
          i \in {k \in DOMAIN data.timeSlots :
                   /\ Truthy(data.timeSlots[k].startTime)
                   /\ Truthy(data.timeSlots[k].endTime)
                   /\ TimeIndex(data.timeSlots[k].startTime)
                        >= TimeIndex(data.timeSlots[k].endTime)}}
  \cup {Issue("guests.name", "Guest name is required") :
          i \in {k \in DOMAIN data.guests : Len(data.guests[k].name) < 1}}
  \cup {Issue("guests.email", "Valid email is required") :
          i \in {k \in DOMAIN data.guests : data.guests[k].email \notin WellFormedEmails}}

\* mutant: the labels are stored sorted by start time
formattedTimeSlotsSorted(timeSlots) ==
  LET rank(k) == Cardinality({j \in DOMAIN timeSlots :
                    \/ TimeIndex(timeSlots[j].startTime) < TimeIndex(timeSlots[k].startTime)
                    \/ /\ timeSlots[j].startTime = timeSlots[k].startTime
                       /\ j <= k})
      at(i) == CHOOSE k \in DOMAIN timeSlots : rank(k) = i
  IN [i \in DOMAIN timeSlots |->
        timeSlots[at(i)].startTime \o " - " \o timeSlots[at(i)].endTime]

\* the labels handleSubmit stores: one per slot, in the order of the form
formattedTimeSlots(timeSlots) ==
  [i \in DOMAIN timeSlots |-> timeSlots[i].startTime \o " - " \o timeSlots[i].endTime]

\* ids the store hands to new episodes, in the order of the inserts
NewEpisodeIds == <<"e3", "e4">>
FreshEpisodeIds == {NewEpisodeIds[i] : i \in DOMAIN NewEpisodeIds} \ DOMAIN episodes
NextEpisodeId ==
  NewEpisodeIds[CHOOSE i \in DOMAIN NewEpisodeIds :
                  /\ NewEpisodeIds[i] \notin DOMAIN episodes
                  /\ \A j \in 1..(i - 1) : NewEpisodeIds[j] \in DOMAIN episodes]

FormUnchanged ==
  UNCHANGED <<guests, inflight, response, storeError, lastPost, raced, calls,
              feed, fetches, shown, notice, tabs>>

\* finally: both flags are lowered, whatever happened
Finally(f) == [f EXCEPT !.pc = "idle", !.loading = FALSE, !.sendingInvites = FALSE]

\* catch: the error toast
Caught(f, message) ==
  Finally([f EXCEPT !.toasts = Append(@, [title |-> "Error", description |-> message])])

\* the end of the try block: success toast, form.reset(), onEpisodeCreated(),
\* onOpenChange(false)
Succeeded(f) ==
  Finally([f EXCEPT
    !.toasts = Append(@, [title |-> "Success!",
                          description |->
                            IF Len(f.data.guests) > 0
                              THEN "Episode created successfully and invitations sent!"
                              ELSE "Episode created successfully!"]),
    !.reset = TRUE, !.created = TRUE, !.open = FALSE])

\* mutant: the dialog calls handleSubmit without the schema's verdict
SubmitFormUnvalidated(data) ==
  /\ form.pc = "idle"
  /\ hostPc = "idle"
  /\ FreshEpisodeIds # {}
  /\ Len(data.guests) <= Cardinality(FreeIds)
  /\ form' = [NoForm EXCEPT !.submitted = TRUE, !.data = data,
                            !.pc = "getUser", !.loading = TRUE]
  /\ UNCHANGED <<episodes, invocations, hostPc, toast>>
  /\ FormUnchanged

\* the submit button: form.handleSubmit validates against the schema and
\* calls handleSubmit only for data without issues; handleSubmit then runs
\* to its first await
SubmitForm(data) ==
  /\ form.pc = "idle"
  /\ hostPc = "idle"
  /\ FreshEpisodeIds # {}
  /\ Len(data.guests) <= Cardinality(FreeIds)
  /\ form' = IF formSchema(data) # {}
               THEN [NoForm EXCEPT !.submitted = TRUE, !.data = data,
                                   !.errors = formSchema(data)]
               ELSE [NoForm EXCEPT !.submitted = TRUE, !.data = data,
                                   !.pc = "getUser", !.loading = TRUE]
  /\ UNCHANGED <<episodes, invocations, hostPc, toast>>
  /\ FormUnchanged

\* handleSubmit after supabase.auth.getUser(): without a user it throws
handleSubmitGetUser ==
  /\ form.pc = "getUser"
  /\ \E user \in {"host-1", Null} :
       form' = IF user = Null
                 THEN Caught(form, "Not authenticated")
                 ELSE [form EXCEPT !.pc = "insert"]
  /\ UNCHANGED <<episodes, invocations, hostPc, toast>>
  /\ FormUnchanged

\* the insert into episodes, at the store: the row, or an error
handleSubmitInsert ==
  /\ form.pc = "insert"
  /\ \/ /\ form' = Caught(form, "insert failed")
        /\ UNCHANGED episodes
     \/ /\ episodes' =
             [e \in DOMAIN episodes \cup {NextEpisodeId} |->
                IF e = NextEpisodeId
                  THEN [title |-> form.data.title,
                        description |-> form.data.description,
                        date |-> form.data.date,
                        time_slots |-> formattedTimeSlots(form.data.timeSlots)]
                  ELSE episodes[e]]
        /\ form' = [form EXCEPT !.pc = "inserted", !.episodeId = NextEpisodeId]
  /\ UNCHANGED <<invocations, hostPc, toast>>
  /\ FormUnchanged

\* handleSubmit after the insert: with guests it starts sendInvitations and
\* awaits it, without guests it goes on to the success outcome
handleSubmitInvite ==
  /\ form.pc = "inserted"
  /\ IF Len(form.data.guests) > 0
       THEN /\ sendInvitations(form.episodeId, form.data.guests)
            /\ form' = [form EXCEPT !.pc = "inviting", !.sendingInvites = TRUE]
       ELSE /\ form' = Succeeded(form)
            /\ UNCHANGED <<invocations, hostPc, toast>>
            /\ FormUnchanged
  /\ UNCHANGED episodes

\* mutant: an invitation that came back with an error is thrown on
handleSubmitDoneStrict ==
  /\ form.pc = "inviting"
  /\ hostPc = "idle"
  /\ form' = IF \E i \in DOMAIN invocations : invocations[i].promise.error # Null
               THEN Caught(form, "invitation failed")
               ELSE Succeeded(form)
  /\ UNCHANGED <<episodes, invocations, hostPc, toast>>
  /\ FormUnchanged

\* handleSubmit after sendInvitations returned
handleSubmitDone ==
  /\ form.pc = "inviting"
  /\ hostPc = "idle"
  /\ form' = Succeeded(form)
  /\ UNCHANGED <<episodes, invocations, hostPc, toast>>
  /\ FormUnchanged

----------------------------------------------------------------------------
(* The booking page in a browser tab *)

\* a tab that has not loaded the page yet
NoPage == [type |-> "html", page |-> None]

\* what the guest may leave in the textarea of the decline form, trimmed
NoteTexts == {"", "conflict"}

\* const { selectedSlot, status, rejectionNote } = await req.json():
\* a key the JSON lacks is undefined
parseBody(json) ==
  [k \in {"status", "selectedSlot", "rejectionNote"} |->
     IF k \in DOMAIN json THEN json[k] ELSE Undefined]

\* the page shows the booking form with its buttons
ShowsForm(t) ==
  /\ tabs[t].page.page = "booking"
  /\ tabs[t].page.view = "form"

\* what the page's scripts leave alone
TabUnchanged == UNCHANGED <<episodes, inflight, raced, dashboard>>

\* the tab loads or reloads the booking link: let selectedSlot = null
TabLoad(t) ==
  /\ BookingGet(tabs[t].guestId)
  /\ tabs' = [tabs EXCEPT ![t] = [guestId |-> tabs[t].guestId,
                                   page |-> response'.body,
                                   selectedSlot |-> Null,
                                   alerts |-> 0]]

\* a click on a .time-slot button: selectedSlot = this.dataset.slot
TabSelectSlot(t, slot) ==
  /\ ShowsForm(t)
  /\ slot \in Range(tabs[t].page.slots)
  /\ tabs[t].selectedSlot # slot
  /\ tabs' = [tabs EXCEPT ![t].selectedSlot = slot]
  /\ UNCHANGED <<guests, response, storeError, lastPost, calls, feed>>
  /\ TabUnchanged

\* the fetch of a page script: the POST, and what the script does with the
\* answer: reload when response.ok, an alert otherwise
TabFetch(t, json) ==
  /\ \/ ApplyPost([guestId |-> tabs[t].guestId, body |-> parseBody(json)])
     \/ FailPost
  /\ tabs' = [tabs EXCEPT ![t].alerts =
                IF response'.status = 200 THEN @ ELSE 1]
  /\ TabUnchanged

\* mutant: the confirm handler lacks its `if (!selectedSlot) return`
TabConfirmUnguarded(t) ==
  /\ ShowsForm(t)
  /\ TabFetch(t, [selectedSlot |-> tabs[t].selectedSlot, status |-> "confirmed"])

\* a click on confirm-btn
TabConfirm(t) ==
  /\ ShowsForm(t)
  /\ Truthy(tabs[t].selectedSlot)
  /\ TabFetch(t, [selectedSlot |-> tabs[t].selectedSlot, status |-> "confirmed"])

\* a click on confirm-decline-btn, with the trimmed text of the textarea
TabDecline(t, text) ==
  /\ ShowsForm(t)
  /\ TabFetch(t, [status |-> "declined",
                  rejectionNote |-> IF text = "" THEN Null ELSE text])

----------------------------------------------------------------------------
(* The host console: the dashboard and the episode details dialog *)

\* the bodies of the guest responses a console session sees: the two the
\* booking page sends, and a declined one with an empty slot
ConsoleBodies ==
  {[status |-> "confirmed", selectedSlot |-> Slot1, rejectionNote |-> Undefined],
   [status |-> "declined", selectedSlot |-> Undefined, rejectionNote |-> Undefined],
   [status |-> "declined", selectedSlot |-> "", rejectionNote |-> Undefined]}

\* the episode whose details dialog is open
OpenEpisode == "e1"

\* the ids of the rows of the table that belong to the episode
GuestsOf(rows, e) ==
  {g \in DOMAIN rows : rows[g] # NoRow /\ rows[g].episode_id = e}

\* from('episodes').select('*, episode_guests (id, name, email, status,
\* selected_time_slot)'): every episode with the rows of its guests
selectEpisodes(rows) ==
  [e \in DOMAIN episodes |->
     [title |-> episodes[e].title,
      episode_guests |->
        {[id |-> g, name |-> rows[g].name, email |-> rows[g].email,
          status |-> rows[g].status,
          selected_time_slot |-> rows[g].selected_time_slot] :
           g \in GuestsOf(rows, e)}]]

\* from('episode_guests').select('*').eq('episode_id', episode.id)
selectGuests(rows, e) ==
  {[id |-> g, name |-> rows[g].name, email |-> rows[g].email,
    status |-> rows[g].status,
    selected_time_slot |-> rows[g].selected_time_slot,
    rejection_note |-> rows[g].rejection_note] : g \in GuestsOf(rows, e)}

\* mutant: every guest that has not confirmed counts as pending
processedDataByRemainder(data) ==
  [e \in DOMAIN data |->
     [title |-> data[e].title,
      episode_guests |-> data[e].episode_guests,
      guest_count |-> Cardinality(data[e].episode_guests),
      confirmed_guests |->
        Cardinality({r \in data[e].episode_guests : r.status = "confirmed"}),
      pending_guests |->
        Cardinality({r \in data[e].episode_guests : r.status # "confirmed"})]]

\* fetchEpisodes: the computed fields added to every episode
processedData(data) ==
  [e \in DOMAIN data |->
     [title |-> data[e].title,
      episode_guests |-> data[e].episode_guests,
      guest_count |-> Cardinality(data[e].episode_guests),
      confirmed_guests |->
        Cardinality({r \in data[e].episode_guests : r.status = "confirmed"}),
      pending_guests |->
        Cardinality({r \in data[e].episode_guests : r.status = "pending"})]]

\* what a component shows once a fetch that read the rows has been applied
Render(component, rows) ==
  IF component = "dashboard"
    THEN [component |-> "dashboard", failed |-> FALSE, loading |-> FALSE,
          episodes |-> processedData(selectEpisodes(rows))]
    ELSE [component |-> "dialog", failed |-> FALSE, loading |-> FALSE,
          guests |-> selectGuests(rows, OpenEpisode)]

\* a fetch whose query has not reached the store yet
Sent == [pc |-> "sent", rows |-> [g \in GuestIds |-> NoRow]]

\* fetchEpisodes or fetchGuests, up to the await of the query; fetchGuests
\* begins with setLoading(true)
StartFetch ==
  /\ Len(fetches) < MaxFetches
  /\ fetches' = Append(fetches, Sent)
  /\ shown' = IF shown.component = "dialog"
                THEN [shown EXCEPT !.loading = TRUE] ELSE shown

\* what the console's handlers leave alone
ConsoleUnchanged ==
  UNCHANGED <<episodes, guests, inflight, response, storeError, lastPost, raced,
              calls, invocations, hostPc, toast, form, tabs>>

\* a guest answers the invitation: the POST of the booking handler
GuestResponds(g) ==
  /\ inflight = {}
  /\ feed.published < MaxResponses
  /\ \E body \in ConsoleBodies : ApplyPost([guestId |-> g, body |-> body])
  /\ UNCHANGED <<episodes, inflight, dashboard, tabs>>

\* the dashboard's handler of an UPDATE event of episode_guests
onGuestUpdate(ev) ==
  IF ev.old.status = "pending" /\ ev.new.status = "confirmed"
    THEN /\ notice' = [title |-> "Guest Response!", name |-> ev.new.name]
         /\ StartFetch
  ELSE IF ~Truthy(ev.old.selected_time_slot) /\ Truthy(ev.new.selected_time_slot)
    THEN /\ notice' = [title |-> "Time Slot Selected", name |-> ev.new.name]
         /\ StartFetch
  ELSE /\ notice' = NoToast
       /\ UNCHANGED <<fetches, shown>>

\* the dialog's handler of any event of the open episode's guests; the
\* channel's filter keeps the events of other episodes away
onGuestChange(ev) ==
  IF ev.new.episode_id = OpenEpisode
    THEN /\ StartFetch
         /\ UNCHANGED notice
    ELSE UNCHANGED <<fetches, shown, notice>>

\* the change feed hands its oldest event to the mounted component
Deliver ==
  /\ feed.events # <<>>
  /\ feed' = [feed EXCEPT !.events = Tail(@)]
  /\ IF shown.component = "dashboard"
       THEN onGuestUpdate(Head(feed.events))
       ELSE onGuestChange(Head(feed.events))
  /\ ConsoleUnchanged

\* the refresh button of the dialog, disabled while loading;
\* onEpisodeCreated of the dashboard
Refresh ==
  /\ shown.component = "dialog" => ~shown.loading
  /\ StartFetch
  /\ UNCHANGED <<feed, notice>>
  /\ ConsoleUnchanged

\* the store evaluates the query of a fetch
FetchRead(i) ==
  /\ fetches[i].pc = "sent"
  /\ \E err \in BOOLEAN :
       fetches' = [fetches EXCEPT ![i] =
                     IF err THEN [pc |-> "failed", rows |-> Sent.rows]
                            ELSE [pc |-> "answered", rows |-> guests]]
  /\ UNCHANGED <<feed, shown, notice>>
  /\ ConsoleUnchanged

\* the sequence without its i-th element
Remove(seq, i) == SubSeq(seq, 1, i - 1) \o SubSeq(seq, i + 1, Len(seq))

\* the answer of a fetch arrives: setEpisodes or setGuests, or the error toast
FetchApply(i) ==
  /\ fetches[i].pc \in {"answered", "failed"}
  /\ fetches' = Remove(fetches, i)
  /\ IF fetches[i].pc = "answered"
       THEN /\ shown' = [Render(shown.component, fetches[i].rows)
                           EXCEPT !.failed = shown.failed]
            /\ UNCHANGED notice
       ELSE /\ shown' = [shown EXCEPT !.failed = TRUE, !.loading = FALSE]
            /\ notice' = [title |-> "Error", name |-> None]
  /\ UNCHANGED feed
  /\ ConsoleUnchanged

----------------------------------------------------------------------------
(* The system *)

InitEpisodes ==
  [e \in EpisodeIds |->
     IF e = "e1"
       THEN [title |-> "AI Future", time_slots |-> <<Slot1, Slot2>>]
       ELSE [title |-> "Deep Work", time_slots |-> <<Slot3>>]]

Init ==
  /\ episodes = InitEpisodes
  /\ guests = [g \in GuestIds |-> NoRow]
  /\ inflight = {}
  /\ response = NoResponse
  /\ storeError = FALSE
  /\ lastPost = NoPost
  /\ raced = FALSE
  /\ calls = <<>>
  /\ invocations = <<>>
  /\ hostPc = "idle"
  /\ toast = NoToast
  /\ form = NoForm
  /\ feed = NoFeed
  /\ fetches = <<>>
  /\ shown = NoShown
  /\ notice = NoToast
  /\ tabs = <<>>

Next ==
  \/ \E id \in RequestIds : BookingOptions(id) /\ UNCHANGED tabs
  \/ \E m \in {"GET", "POST", "PUT"} : BookingBadRequest(m) /\ UNCHANGED tabs
  \/ \E id \in RequestIds : BookingGet(id) /\ UNCHANGED tabs
  \/ \E id \in RequestIds : BookingPostMalformed(id) /\ UNCHANGED tabs
  \/ \E id \in RequestIds : BookingPost(id) /\ UNCHANGED tabs
  \/ \E id \in RequestIds : BookingMethodNotAllowed(id) /\ UNCHANGED tabs
  \/ InvitationOptions /\ UNCHANGED tabs
  \/ \E e \in EpisodeIds \cup {NoSuchEpisode} :
       ~StoreFull /\ SendInvitation(e, NextInvitee) /\ UNCHANGED tabs

Spec == Init /\ [][Next]_vars

\* one guest was invited; POSTs for its booking link overlap
InitRace ==
  /\ episodes = InitEpisodes
  /\ guests = [g \in GuestIds |->
                 IF g = GuestIdPool[1] THEN NewGuest("e1", "Jane", "jane@x.com") ELSE NoRow]
  /\ inflight = {}
  /\ response = NoResponse
  /\ storeError = FALSE
  /\ lastPost = NoPost
  /\ raced = FALSE
  /\ calls = <<>>
  /\ invocations = <<>>
  /\ hostPc = "idle"
  /\ toast = NoToast
  /\ form = NoForm
  /\ feed = NoFeed
  /\ fetches = <<>>
  /\ shown = NoShown
  /\ notice = NoToast
  /\ tabs = <<>>

NextRace ==
  \/ \E id \in RequestIds : BookingGet(id) /\ UNCHANGED tabs
  \/ \E id \in RequestIds \cap GuestIds, body \in Bodies :
       BookingPostReceive(id, body) /\ UNCHANGED tabs
  \/ \E p \in inflight : BookingPostUpdate(p) /\ UNCHANGED tabs

SpecRace == InitRace /\ [][NextRace]_vars

\* the guest lists a batch may carry
Batches == {SubSeq(Invitees, a, b) : a, b \in DOMAIN Invitees}

NextInvite ==
  \/ \E e \in EpisodeIds \cup {NoSuchEpisode}, gs \in Batches :
       sendInvitations(e, gs) /\ UNCHANGED form
  \/ \E i \in DOMAIN invocations : InvitationLookup(i)
  \/ \E i \in DOMAIN invocations : InvitationInsert(i)
  \/ \E i \in DOMAIN invocations : InvitationSend(i)
  \/ awaitInvitations

SpecInvite == Init /\ [][NextInvite]_vars

NextCreate ==
  \/ \E data \in FormInputs : SubmitForm(data)
  \/ handleSubmitGetUser
  \/ handleSubmitInsert
  \/ handleSubmitInvite
  \/ handleSubmitDone
  \/ \E i \in DOMAIN invocations : InvitationLookup(i)
  \/ \E i \in DOMAIN invocations : InvitationInsert(i)
  \/ \E i \in DOMAIN invocations : InvitationSend(i)
  \/ awaitInvitations

SpecCreate == Init /\ [][NextCreate]_vars

\* both guests are invited, and two tabs are about to open booking links:
\* both the link of the first guest, or one each
InitPage ==
  /\ episodes = InitEpisodes
  /\ guests = [g \in GuestIds |->
                 IF g = GuestIdPool[1]
                   THEN NewGuest("e1", Invitees[1].name, Invitees[1].email)
                   ELSE NewGuest("e2", Invitees[2].name, Invitees[2].email)]
  /\ inflight = {}
  /\ response = NoResponse
  /\ storeError = FALSE
  /\ lastPost = NoPost
  /\ raced = FALSE
  /\ calls = <<>>
  /\ invocations = <<>>
  /\ hostPc = "idle"
  /\ toast = NoToast
  /\ form = NoForm
  /\ feed = NoFeed
  /\ fetches = <<>>
  /\ shown = NoShown
  /\ notice = NoToast
  /\ \E g \in GuestIds :
       tabs = [t \in 1..2 |->
                 [guestId |-> IF t = 1 THEN GuestIdPool[1] ELSE g,
                  page |-> NoPage, selectedSlot |-> Null, alerts |-> 0]]

NextPage ==
  \/ \E t \in DOMAIN tabs : TabLoad(t)
  \/ \E t \in DOMAIN tabs : \E slot \in {Slot1, Slot2, Slot3} : TabSelectSlot(t, slot)
  \/ \E t \in DOMAIN tabs : TabConfirm(t)
  \/ \E t \in DOMAIN tabs : \E text \in NoteTexts : TabDecline(t, text)

SpecPage == InitPage /\ [][NextPage]_vars

\* two guests are invited, the second to either episode; the dashboard or
\* the details dialog of the first episode is mounted, subscribed, and shows
\* what its fetch on mount read
InitConsole ==
  /\ episodes = InitEpisodes
  /\ \E e \in EpisodeIds :
       guests = [g \in GuestIds |->
                   IF g = GuestIdPool[1]
                     THEN NewGuest("e1", Invitees[1].name, Invitees[1].email)
                     ELSE NewGuest(e, Invitees[2].name, Invitees[2].email)]
  /\ inflight = {}
  /\ response = NoResponse
  /\ storeError = FALSE
  /\ lastPost = NoPost
  /\ raced = FALSE
  /\ calls = <<>>
  /\ invocations = <<>>
  /\ hostPc = "idle"
  /\ toast = NoToast
  /\ form = NoForm
  /\ feed = [NoFeed EXCEPT !.subscribed = TRUE]
  /\ fetches = <<>>
  /\ \E component \in {"dashboard", "dialog"} : shown = Render(component, guests)
  /\ notice = NoToast
  /\ tabs = <<>>

NextConsole ==
  \/ \E g \in GuestIds : GuestResponds(g)
  \/ Deliver
  \/ Refresh
  \/ \E i \in DOMAIN fetches : FetchRead(i)
  \/ \E i \in DOMAIN fetches : FetchApply(i)

SpecConsole == InitConsole /\ [][NextConsole]_vars

\* the feed delivers every event it holds, and every fetch gets its answer
SpecConsoleLive ==
  /\ SpecConsole
  /\ WF_vars(Deliver)
  /\ \A i \in 1..MaxFetches :
       WF_vars(i \in DOMAIN fetches /\ (FetchRead(i) \/ FetchApply(i)))

----------------------------------------------------------------------------
(* Properties *)

IsBooking(method) == response.handler = "guest-booking" /\ response.method = method

\* the slots the episode of guest g offers
Offered(g) == Range(episodes[guests[g].episode_id].time_slots)

\* C1: in every reachable state a guest's selected_time_slot is non-null
\* exactly when the guest's status is confirmed.
C1_SlotIffConfirmed ==
  \A g \in GuestIds :
    guests[g] # NoRow =>
      ((guests[g].selected_time_slot # Null) <=> (guests[g].status = "confirmed"))

\* C2: after a booking POST that set a guest's status to confirmed, the
\* guest's selected_time_slot is one of the time_slots of the guest's episode.
C2_ConfirmedSlotOffered ==
  (lastPost # NoPost /\ lastPost.body.status = "confirmed") =>
    guests[lastPost.guestId].selected_time_slot \in Offered(lastPost.guestId)

\* C3: every guest's status is one of pending, confirmed, declined.
C3_StatusDomain ==
  \A g \in GuestIds :
    guests[g] # NoRow => guests[g].status \in {"pending", "confirmed", "declined"}

\* C4: a booking POST updates the guest whatever its current status: unless
\* the path holds no id, the store fails or the body does not parse, the
\* POST is answered as a success, and the row of an existing guest then
\* holds the POST's status, whether the guest was pending, confirmed or
\* declined before.
C4_UnconditionalUpdate ==
  /\ (IsBooking("POST") /\ response.status # 200) =>
       \/ response.guestId = MissingId /\ response.status = 400
       \/ storeError
       \/ response.body.type = "json" /\ response.body.error = "Unexpected token"
  /\ (IsBooking("POST") /\ response.status = 200) =>
       /\ response.body.success
       /\ Exists(response.guestId) =>
            /\ lastPost.guestId = response.guestId
            /\ guests[response.guestId].status = lastPost.body.status

\* a confirmed guest was moved to declined by a later POST, answered as a success
C4_Witness ==
  /\ IsBooking("POST") /\ response.status = 200
  /\ lastPost # NoPost
  /\ lastPost.guestId = response.guestId
  /\ lastPost.old = "confirmed"
  /\ lastPost.body.status = "declined"
  /\ guests[lastPost.guestId].status = "declined"

\* C5: every guest row the invitation dispatcher creates starts with status
\* pending and selected_time_slot null, for every episode and invitee.
C5_NewGuestPending ==
  [][\A g \in GuestIds :
       (guests[g] = NoRow /\ guests'[g] # NoRow) =>
         /\ guests'[g].status = "pending"
         /\ guests'[g].selected_time_slot = Null]_vars

\* the second invitation created its row while the first guest had already answered
C5_Witness ==
  /\ response.handler = "send-invitation"
  /\ response.guestId = GuestIdPool[2]
  /\ guests[GuestIdPool[2]].status = "pending"
  /\ guests[GuestIdPool[2]].selected_time_slot = Null
  /\ guests[GuestIdPool[2]].episode_id = "e2"
  /\ guests[GuestIdPool[1]].status = "confirmed"

\* C6: a booking POST stores the caller's slot in selected_time_slot only
\* when the POST's status is confirmed.
C6_SlotOnlyOnConfirmed ==
  [][\A g \in GuestIds :
       (/\ guests[g] # NoRow
        /\ guests'[g].selected_time_slot # guests[g].selected_time_slot
        /\ guests'[g].selected_time_slot # Null) =>
         (lastPost'.guestId = g /\ lastPost'.body.status = "confirmed")]_vars

\* C7: rejection_note changes only by a POST whose status is declined and
\* whose note is present, and it then holds that note; every other step
\* leaves it as it was.
C7_NoteOnlyOnDeclined ==
  [][\A g \in GuestIds :
       guests[g] # NoRow =>
         /\ (guests'[g].rejection_note # guests[g].rejection_note) =>
              /\ lastPost'.guestId = g
              /\ lastPost'.body.status = "declined"
              /\ Truthy(lastPost'.body.rejectionNote)
         /\ (/\ lastPost' # NoPost
             /\ lastPost'.guestId = g
             /\ lastPost'.body.status = "declined"
             /\ Truthy(lastPost'.body.rejectionNote)) =>
              guests'[g].rejection_note = lastPost'.body.rejectionNote]_vars

\* a declined POST stored its note, and the confirmed POST after it left the note
C7_Witness ==
  /\ lastPost # NoPost
  /\ IsBooking("POST") /\ response.guestId = lastPost.guestId
  /\ lastPost.old = "declined"
  /\ lastPost.body.status = "confirmed"
  /\ lastPost.body.rejectionNote = Undefined
  /\ guests[lastPost.guestId].rejection_note = "conflict"

\* C8: the GET that follows a successful POST for the same guest, with no
\* POST in between, renders what the POST wrote: the confirmed view with the
\* POST's slot, or the declined view with the POST's note.
C8_GetRendersLastPost ==
  (/\ IsBooking("GET")
   /\ ~storeError
   /\ lastPost # NoPost
   /\ response.guestId = lastPost.guestId) =>
    /\ response.body.page = "booking"
    /\ (lastPost.body.status = "confirmed" /\ Truthy(lastPost.body.selectedSlot)) =>
         /\ response.body.view = "confirmed"
         /\ response.body.slot = lastPost.body.selectedSlot
    /\ (lastPost.body.status = "declined" /\ Truthy(lastPost.body.rejectionNote)) =>
         /\ response.body.view = "declined"
         /\ response.body.note = lastPost.body.rejectionNote

\* a GET after a declined POST that carried a note and a slot shows the declined view
C8_Witness ==
  /\ IsBooking("GET")
  /\ lastPost # NoPost
  /\ response.guestId = lastPost.guestId
  /\ lastPost.body = [status |-> "declined", selectedSlot |-> Slot3,
                      rejectionNote |-> "conflict"]
  /\ response.body.page = "booking"
  /\ response.body.view = "declined"
  /\ response.body.note = "conflict"

C10_Frame ==
  [][/\ episodes' = episodes
     /\ \A g \in GuestIds :
          (guests[g] # NoRow /\ guests'[g] # guests[g]) =>
            /\ response'.handler = "guest-booking"
            /\ response'.method = "POST"
            /\ response'.guestId = g
     /\ (response'.handler = "guest-booking" /\ response'.method = "GET") =>
          /\ guests' = guests
          /\ (response'.body.type = "html" /\ response'.body.page = "booking") =>
               response'.body.name = guests[response'.guestId].name]_vars

\* a POST for the first guest was applied while the second guest's row existed
C10_Witness ==
  /\ IsBooking("POST") /\ response.status = 200
  /\ response.guestId = GuestIdPool[1]
  /\ lastPost # NoPost
  /\ lastPost.guestId = GuestIdPool[1]
  /\ guests[GuestIdPool[1]].status = "declined"
  /\ guests[GuestIdPool[2]] # NoRow
  /\ guests[GuestIdPool[2]].status = "pending"

\* the page a GET renders for guest g out of the table gs
PageOf(gs, g) ==
  createBookingPage([guest |-> gs[g], episodes |-> episodes[gs[g].episode_id]])

\* C11: a GET on a booking link is idempotent and read-only: a GET changes no
\* guest row and no episode row; a GET that follows a GET for the same id
\* (the store answering both) returns the same response; and no step but a
\* POST for guest g changes the page a GET renders for g.
C11_GetIdempotent ==
  [][/\ (response'.handler = "guest-booking" /\ response'.method = "GET") =>
          /\ guests' = guests
          /\ episodes' = episodes
          /\ (/\ IsBooking("GET")
              /\ response.guestId = response'.guestId
              /\ ~storeError /\ ~storeError') => response' = response
     /\ \A g \in GuestIds :
          (/\ guests[g] # NoRow
           /\ ~(/\ response'.handler = "guest-booking"
                /\ response'.method = "POST"
                /\ response'.guestId = g)) =>
            PageOf(guests', g) = PageOf(guests, g)]_vars

\* a GET rendered the confirmed view of an existing guest from one select
C11_Witness ==
  /\ IsBooking("GET") /\ ~storeError
  /\ Exists(response.guestId)
  /\ calls = <<"episode_guests.select">>
  /\ response.body = PageOf(guests, response.guestId)
  /\ response.body.view = "confirmed"

\* C12: a GET for a guest id that resolves to no guest row is answered with
\* the not-found page and HTTP status 200, the same page for every such id.
C12_NotFoundPage ==
  (/\ IsBooking("GET")
   /\ response.guestId # MissingId
   /\ ~Exists(response.guestId)) =>
    /\ response.status = 200
    /\ response.body = createNotFoundPage

\* the store answered the GET of an unknown id without error while a guest row existed
C12_Witness ==
  /\ IsBooking("GET") /\ ~storeError
  /\ response.guestId = NoSuchGuest
  /\ response.status = 200
  /\ response.body = createNotFoundPage
  /\ guests[GuestIdPool[1]] # NoRow

\* C13: a booking request whose guest id is malformed or missing fails with
\* HTTP 400 and performs no read or write on the store.
C13_BadIdRejected ==
  (/\ response.handler = "guest-booking"
   /\ response.method \in {"GET", "POST"}
   /\ response.guestId \in {MissingId, MalformedId}) =>
    /\ response.status = 400
    /\ calls = <<>>

\* C14: a booking POST whose body does not parse is answered with HTTP 400
\* and leaves every guest row unchanged.
C14_MalformedBody400 ==
  [][(/\ response'.handler = "guest-booking"
      /\ response'.method = "POST"
      /\ response'.body.type = "json"
      /\ "error" \in DOMAIN response'.body
      /\ response'.body.error = "Unexpected token") =>
       /\ response'.status = 400
       /\ guests' = guests]_vars

\* C15 as stated: every request with a method other than GET, POST and
\* OPTIONS fails with HTTP 405 and changes no state.
C15_UnsupportedMethod405 ==
  [][(response'.handler = "guest-booking"
      /\ response'.method \notin {"GET", "POST", "OPTIONS"}) =>
       /\ response'.status = 405
       /\ guests' = guests
       /\ episodes' = episodes]_vars

\* C15 amended: a request with a method other than GET, POST and OPTIONS
\* fails with HTTP 405 when its path holds a guest id and with HTTP 400 when
\* it holds none; either way it calls no store and changes no state.
C15_UnsupportedMethod ==
  [][(response'.handler = "guest-booking"
      /\ response'.method \notin {"GET", "POST", "OPTIONS"}) =>
       /\ response'.status = IF response'.guestId = MissingId THEN 400 ELSE 405
       /\ calls' = <<>>
       /\ guests' = guests
       /\ episodes' = episodes]_vars

\* a PUT on the booking link of an answered guest was refused
C15_Witness ==
  /\ response.handler = "guest-booking"
  /\ response.method = "PUT"
  /\ response.status = 405
  /\ lastPost # NoPost
  /\ guests[lastPost.guestId].status = lastPost.body.status

Count(log, c) == Cardinality({k \in DOMAIN log : log[k] = c})

\* C17: an invitation for an episode id that does not exist fails with
\* HTTP 500 and {error: "Episode not found"}; it creates no guest row and
\* sends no email: its handler stops after the episode lookup, and every
\* guest row belongs to an existing episode.
C17_UnknownEpisode ==
  /\ \A i \in DOMAIN invocations :
       invocations[i].episodeId \notin EpisodeIds =>
         /\ invocations[i].pc \in {"lookup", "done"}
         /\ invocations[i].guestId = None
         /\ invocations[i].pc = "done" =>
              /\ invocations[i].response.status = 500
              /\ invocations[i].response.body =
                   [type |-> "json", error |-> "Episode not found"]
              /\ invocations[i].calls = <<"episodes.select">>
  /\ \A g \in GuestIds : guests[g] # NoRow => guests[g].episode_id \in EpisodeIds

\* a batch of two for an unknown episode failed twice, after an earlier batch had created a row
C17_Witness ==
  /\ hostPc = "idle"
  /\ Len(invocations) = 2
  /\ \A i \in DOMAIN invocations :
       /\ invocations[i].episodeId = NoSuchEpisode
       /\ invocations[i].pc = "done"
       /\ invocations[i].response.status = 500
  /\ ~storeError
  /\ Cardinality(FreeIds) = 2

\* C18: in an invitation the guest row is committed before the email send is
\* attempted, and a failing send neither removes nor alters it: an invocation
\* that is at or past its send has its row, with status pending, the insert
\* came before the one send in its log, and no step changes an existing row.
C18_RowSurvivesFailedSend ==
  [][/\ \A g \in GuestIds : guests[g] # NoRow => guests'[g] = guests[g]
     /\ \A i \in DOMAIN invocations' :
          (invocations'[i].pc = "send"
           \/ Count(invocations'[i].calls, "emails.send") > 0) =>
            /\ invocations'[i].guestId \in GuestIds
            /\ guests'[invocations'[i].guestId] # NoRow
            /\ guests'[invocations'[i].guestId].status = "pending"
            /\ guests'[invocations'[i].guestId].email = invocations'[i].guestEmail
            /\ Count(invocations'[i].calls, "episode_guests.insert") = 1
            /\ Count(invocations'[i].calls, "emails.send") <= 1
            /\ invocations'[i].pc = "done" =>
                 invocations'[i].calls =
                   <<"episodes.select", "profiles.select",
                     "episode_guests.insert", "emails.send">>]_vars

\* the send of an invitation failed and was answered 500; its row is there, pending
C18_Witness ==
  /\ response.handler = "send-invitation"
  /\ response.status = 500
  /\ response.body.error = "email provider error"
  /\ \E i \in DOMAIN invocations :
       /\ invocations[i].pc = "done"
       /\ invocations[i].response = response
       /\ guests[invocations[i].guestId].status = "pending"
       /\ guests[invocations[i].guestId].selected_time_slot = Null

\* C19: the invitations of one batch are dispatched together and run
\* independently: whatever the others did, an invocation that has not
\* answered can take its next step, the row of an invocation that inserted
\* one is there, and a batch is settled only when every invocation answered.
C19_IndependentInvitations ==
  /\ \A i \in DOMAIN invocations :
       /\ invocations[i].pc # "done" => ENABLED InvitationStep(i)
       /\ invocations[i].guestId # None =>
            /\ guests[invocations[i].guestId] # NoRow
            /\ guests[invocations[i].guestId].name = invocations[i].guestName
            /\ guests[invocations[i].guestId].status = "pending"
  /\ (hostPc = "idle" /\ invocations # <<>>) =>
       \A i \in DOMAIN invocations : invocations[i].pc = "done"

\* the first invitation of a batch failed at its episode lookup before the
\* second had started; the second then ran to its 200
C19_Witness ==
  /\ Len(invocations) = 2
  /\ invocations[1].pc = "done"
  /\ invocations[1].response.status = 500
  /\ invocations[1].guestId = None
  /\ invocations[2].pc = "done"
  /\ invocations[2].response.status = 200
  /\ invocations[2].guestId = GuestIdPool[1]
  /\ guests[GuestIdPool[1]].status = "pending"
  /\ guests[GuestIdPool[1]].name = invocations[2].guestName

\* C20: when at least one invitation of a batch failed, the host is shown
\* the partial-failure warning once the batch is settled.
C20_WarningOnFailure ==
  (/\ hostPc = "idle"
   /\ \E i \in DOMAIN invocations : invocations[i].response.status # 200) =>
    toast = WarningToast

\* the paths of the issues the dialog shows
IssuePaths(f) == {x.path : x \in f.errors}

\* C21: a submit whose title, description, date or list of slots is empty
\* fails with a validation error on that field; it inserts no episode row and
\* dispatches no invitation, and no episode row created through the dialog
\* has one of them empty.
C21_ValidationBlocksCreate ==
  [][/\ (form.pc = "idle" /\ form' # form) =>
          /\ (form'.data.title = "" => "title" \in IssuePaths(form'))
          /\ (form'.data.description = "" => "description" \in IssuePaths(form'))
          /\ (form'.data.date = "" => "date" \in IssuePaths(form'))
          /\ (form'.data.timeSlots = <<>> => "timeSlots" \in IssuePaths(form'))
          /\ form'.errors # {} =>
               /\ form'.pc = "idle"
               /\ ~form'.loading
               /\ episodes' = episodes
               /\ invocations' = invocations
               /\ hostPc' = hostPc
     /\ \A e \in DOMAIN episodes' \ DOMAIN episodes :
          /\ episodes'[e].title # ""
          /\ episodes'[e].description # ""
          /\ episodes'[e].date # ""
          /\ episodes'[e].time_slots # <<>>]_vars

\* after one episode was created, a submit without slots was turned down
C21_Witness ==
  /\ form.submitted /\ form.pc = "idle"
  /\ form.data.timeSlots = <<>>
  /\ form.data.title # ""
  /\ Issue("timeSlots", "At least one time slot is required") \in form.errors
  /\ form.episodeId = None
  /\ DOMAIN episodes = EpisodeIds \cup {NewEpisodeIds[1]}
  /\ invocations # <<>>

\* C22: every episode created through the dialog has a non-empty time_slots
\* sequence with one label per slot of the form, the i-th label built from
\* the start and the end time of the i-th slot.
C22_TimeSlotsInOrder ==
  /\ \A e \in DOMAIN episodes : Len(episodes[e].time_slots) >= 1
  /\ form.episodeId # None =>
       /\ form.episodeId \in DOMAIN episodes
       /\ Len(episodes[form.episodeId].time_slots) = Len(form.data.timeSlots)
       /\ \A i \in DOMAIN form.data.timeSlots :
            episodes[form.episodeId].time_slots[i] =
              form.data.timeSlots[i].startTime \o " - " \o form.data.timeSlots[i].endTime

\* an episode was created from a form whose later slot was entered first
C22_Witness ==
  /\ form.episodeId # None
  /\ Len(form.data.timeSlots) = 2
  /\ form.data.timeSlots[1].startTime = "10:00"
  /\ form.data.timeSlots[2].startTime = "09:00"
  /\ episodes[form.episodeId].time_slots = <<"10:00 - 11:00", "09:00 - 10:00">>

\* the success outcome of handleSubmit
SuccessOutcome(f) ==
  /\ f.toasts # <<>>
  /\ f.toasts[Len(f.toasts)].title = "Success!"
  /\ f.reset /\ f.created /\ ~f.open

\* C29: invitations are in flight only for an episode whose insert succeeded;
\* a finished submit shows the success outcome exactly when the episode was
\* inserted, whatever its invitations answered, and the episode row is still
\* there; and a finished submit has loading and sendingInvites both false.
C29_SubmitOutcome ==
  /\ hostPc = "awaiting" =>
       /\ form.pc = "inviting"
       /\ form.episodeId \in DOMAIN episodes
       /\ \A i \in DOMAIN invocations : invocations[i].episodeId = form.episodeId
  /\ form.episodeId # None =>
       /\ form.episodeId \in DOMAIN episodes
       /\ episodes[form.episodeId].title = form.data.title
  /\ (form.pc = "idle" /\ form.submitted) =>
       /\ ~form.loading
       /\ ~form.sendingInvites
       /\ SuccessOutcome(form) <=> form.episodeId # None
       /\ form.episodeId = None =>
            /\ ~form.reset /\ ~form.created /\ form.open
            /\ \A k \in DOMAIN form.toasts : form.toasts[k].title # "Success!"

\* the submit finished with the success outcome although one of its two invitations failed
C29_Witness ==
  /\ form.pc = "idle" /\ form.submitted
  /\ SuccessOutcome(form)
  /\ form.episodeId \in DOMAIN episodes
  /\ Len(invocations) = 2
  /\ invocations[1].promise.error # Null
  /\ invocations[2].promise.error = Null
  /\ ~form.loading /\ ~form.sendingInvites

\* C27: a booking POST for an id that matches no guest row, when the store
\* reports no error, is answered 200 with {success: true}; it creates no row
\* and changes no row.
C27_PostUnknownGuest ==
  [][(/\ response'.handler = "guest-booking"
      /\ response'.method = "POST"
      /\ response'.guestId \in {NoSuchGuest} \cup {g \in GuestIds : guests[g] = NoRow}) =>
       /\ response'.status = 200
       /\ response'.body = [type |-> "json", success |-> TRUE]
       /\ guests' = guests
       /\ lastPost' = lastPost]_vars

\* one guest is invited, and a POST for an unknown id was answered with success
C27_Witness ==
  /\ IsBooking("POST")
  /\ response.guestId = NoSuchGuest
  /\ response.status = 200
  /\ response.body.success
  /\ guests[GuestIdPool[1]] # NoRow
  /\ guests[GuestIdPool[1]].status = "pending"
  /\ guests[GuestIdPool[2]] = NoRow

\* C28: no step clears a stored rejection_note: a row that holds a note
\* holds one after every step, the same note unless a declined POST carried
\* a new one; so a guest is confirmed while it holds a note, and the declined
\* view rendered later shows the note that is stored.
C28_NoteNeverCleared ==
  [][\A g \in GuestIds :
       (guests[g] # NoRow /\ Truthy(guests[g].rejection_note)) =>
         /\ guests'[g] # NoRow
         /\ Truthy(guests'[g].rejection_note)
         /\ \/ guests'[g].rejection_note = guests[g].rejection_note
            \/ /\ lastPost'.guestId = g
               /\ lastPost'.body.status = "declined"
               /\ guests'[g].rejection_note = lastPost'.body.rejectionNote
         /\ (/\ response'.handler = "guest-booking"
             /\ response'.method = "GET"
             /\ response'.guestId = g
             /\ ~storeError'
             /\ guests'[g].status = "declined") =>
              /\ response'.body.view = "declined"
              /\ response'.body.note = guests'[g].rejection_note]_vars

\* a guest that declined with a note, was confirmed, and declined again
\* without a note is shown the declined view with the first note
C28_Witness ==
  /\ IsBooking("GET")
  /\ lastPost # NoPost
  /\ response.guestId = lastPost.guestId
  /\ lastPost.old = "confirmed"
  /\ lastPost.body.status = "declined"
  /\ lastPost.body.rejectionNote = Undefined
  /\ response.body.page = "booking"
  /\ response.body.view = "declined"
  /\ response.body.note = "conflict"

\* C26: when every POST comes from the script of a rendered booking page, a
\* confirmed POST carries a slot that the episode offers and a declined POST
\* carries no slot; so, two stale tabs of one guest included, a confirmed
\* guest always has a selected slot from the episode's list.
C26_PageTraffic ==
  /\ lastPost # NoPost =>
       /\ lastPost.body.status \in {"confirmed", "declined"}
       /\ lastPost.body.status = "confirmed" =>
            /\ Truthy(lastPost.body.selectedSlot)
            /\ lastPost.body.selectedSlot \in Offered(lastPost.guestId)
       /\ lastPost.body.status = "declined" => lastPost.body.selectedSlot = Undefined
  /\ \A g \in GuestIds :
       (guests[g] # NoRow /\ guests[g].status = "confirmed") =>
         guests[g].selected_time_slot \in Offered(g)
  /\ \A g \in GuestIds :
       (guests[g] # NoRow /\ guests[g].status = "declined") =>
         guests[g].selected_time_slot = Null

\* two tabs of one guest both show the form; one declined, and then the
\* other, stale, confirmed with the slot selected in it
C26_Witness ==
  /\ tabs[1].guestId = tabs[2].guestId
  /\ ShowsForm(1) /\ ShowsForm(2)
  /\ lastPost # NoPost
  /\ lastPost.guestId = tabs[1].guestId
  /\ lastPost.old = "declined"
  /\ lastPost.body.status = "confirmed"
  /\ guests[lastPost.guestId].status = "confirmed"
  /\ guests[lastPost.guestId].selected_time_slot = Slot2
  /\ guests[lastPost.guestId].rejection_note = "conflict"

\* C23: the dashboard's listing gives every episode the counts of the guest
\* rows fetched with it: guest_count the number of the episode's guest rows,
\* confirmed_guests those with status confirmed, pending_guests those with
\* status pending, so that confirmed_guests + pending_guests <= guest_count,
\* and an episode without guests has guest_count 0.
C23_GuestCounts ==
  shown.component = "dashboard" =>
    \A e \in DOMAIN shown.episodes :
      /\ e \in DOMAIN episodes
      /\ \A r \in shown.episodes[e].episode_guests :
           /\ r.id \in GuestsOf(guests, e)
           /\ r.status \in {"pending", "confirmed", "declined"}
      /\ shown.episodes[e].guest_count =
           Cardinality({r.id : r \in shown.episodes[e].episode_guests})
      /\ shown.episodes[e].confirmed_guests =
           Cardinality({r.id : r \in {x \in shown.episodes[e].episode_guests :
                                        x.status = "confirmed"}})
      /\ shown.episodes[e].pending_guests =
           Cardinality({r.id : r \in {x \in shown.episodes[e].episode_guests :
                                        x.status = "pending"}})
      /\ shown.episodes[e].confirmed_guests + shown.episodes[e].pending_guests
           <= shown.episodes[e].guest_count
      /\ GuestsOf(guests, e) = {} => shown.episodes[e].guest_count = 0

\* the dashboard lists one episode with a confirmed and a declined guest,
\* and the other episode without guests
C23_Witness ==
  /\ shown.component = "dashboard"
  /\ shown.episodes["e1"].guest_count = 2
  /\ shown.episodes["e1"].confirmed_guests = 1
  /\ shown.episodes["e1"].pending_guests = 0
  /\ shown.episodes["e2"].guest_count = 0
  /\ shown.episodes["e2"].confirmed_guests = 0
  /\ shown.episodes["e2"].pending_guests = 0

\* C24: on a guest UPDATE event the dashboard shows a notification and
\* starts fetchEpisodes exactly when the status went from pending to
\* confirmed or selected_time_slot went from null to a value that is not null.
C24_NotifyOnNullToSlot ==
  [][(/\ shown.component = "dashboard"
      /\ feed.events # <<>>
      /\ feed'.events = Tail(feed.events)
      /\ feed'.published = feed.published) =>
       /\ (notice' # NoToast) <=>
            \/ /\ Head(feed.events).old.status = "pending"
               /\ Head(feed.events).new.status = "confirmed"
            \/ /\ Head(feed.events).old.selected_time_slot = Null
               /\ Head(feed.events).new.selected_time_slot # Null
       /\ (Len(fetches') = Len(fetches) + 1) <=>
            \/ /\ Head(feed.events).old.status = "pending"
               /\ Head(feed.events).new.status = "confirmed"
            \/ /\ Head(feed.events).old.selected_time_slot = Null
               /\ Head(feed.events).new.selected_time_slot # Null]_vars

\* the dashboard's confirmed and pending counts are those of the store
CountsCurrent ==
  \A e \in DOMAIN episodes :
    /\ shown.episodes[e].confirmed_guests =
         Cardinality({g \in GuestsOf(guests, e) : guests[g].status = "confirmed"})
    /\ shown.episodes[e].pending_guests =
         Cardinality({g \in GuestsOf(guests, e) : guests[g].status = "pending"})

\* C25: whenever a guest has responded while the dashboard is subscribed,
\* the dashboard's confirmed and pending counts eventually equal those of
\* the store, with no refresh by hand; a fetch that failed is left aside.
C25_CountsFollowResponses ==
  (shown.component = "dashboard" /\ feed.events # <<>>)
    ~> (shown.component = "dashboard" /\ (shown.failed \/ CountsCurrent))

\* no event waits in the feed and no fetch is in flight
Quiescent == feed.events = <<>> /\ fetches = <<>>

\* C30: once every fetch has been answered and applied and nothing changes
\* any more, the dialog's list equals the store's rows of the episode, and
\* the dashboard's counts equal the store's after a change that made it
\* refetch, whatever the order of the answers; a fetch that failed is left aside.
C30_OverlappingRefreshes ==
  (Quiescent /\ ~shown.failed) =>
    /\ shown.component = "dialog" =>
         shown.guests = selectGuests(guests, OpenEpisode)
    /\ (/\ shown.component = "dashboard"
        /\ lastPost # NoPost
        /\ lastPost.old = "pending"
        /\ lastPost.body.status = "confirmed") => CountsCurrent

====
